---- MODULE Spec2Model ----
(***************************************************************************)
(* Communication intrinsics of tl/op/comm.cc and the operator registry    *)
(* they are declared in.                                                  *)
(*                                                                         *)
(* comm.cc expands TIR_DEFINE_TL_BUILTIN eight times.  Each expansion     *)
(* gives (a) an accessor OpName() holding a function-local static         *)
(* reference initialised by Op::Get("tl." #OpName), and (b) a             *)
(* static-initialisation statement                                         *)
(*   TVM_REGISTER_OP("tl." #OpName)                                        *)
(*       .set_attr("TScriptPrinterName", #OpName)                          *)
(*       .set_num_inputs(n).set_attr("TCallEffectKind", kOpaque)           *)
(* The registry itself (register_or_get, set_attribute, get_attribute,    *)
(* lookup) is not part of comm.cc / comm.h; it is modelled from the       *)
(* registry contract of the design document.                               *)
(***************************************************************************)
EXTENDS Integers, Sequences, FiniteSets, TLC

VARIABLES
    entries,     \* registry table: sequence of registered names; identity = index
    attrs,       \* attribute bindings: <<identity, kind>> -> string value
    num_inputs,  \* arity bindings: identity -> integer
    regOp,       \* index of the catalog statement static initialisation is at
    regStep,     \* position inside that statement's call chain (1..4)
    regEntry,    \* the registry entry the running call chain operates on
    cache,       \* per accessor: the function-local static (<<>> = uninitialised)
    guard,       \* per accessor: thread holding the static's initialisation guard
    pc,          \* per thread: "idle", "init" (initialising the static) or "done"
    cur,         \* per thread: accessor being called (or "")
    ret,         \* per thread: what its last accessor call returned
    last,        \* the most recent completed registry operation and its result
    fatal        \* a conflicting registration aborted the process

vars == <<entries, attrs, num_inputs, regOp, regStep, regEntry,
          cache, guard, pc, cur, ret, last, fatal>>

----------------------------------------------------------------------------
(* Bounds                                                                  *)

NumThreads == 2

Threads == 1..NumThreads

----------------------------------------------------------------------------
(* The catalog: comm.cc lines 19-34, in declaration order                  *)

Catalog == <<"comm_put", "comm_broadcast", "comm_allgather", "comm_reduce",
             "comm_barrier", "comm_fence", "CoreId", "comm_current_core">>

NumOps == Len(Catalog)

OpNames == {Catalog[i] : i \in 1..NumOps}

\* variant: the registration key loses its "tl." prefix
RegKey_Bare(X) == X

\* TVM_REGISTER_OP("tl." #OpName)
RegKey(X) == "tl." \o X

\* variant: every accessor looks up one fixed key
AccKey_FixedKey(X) == "tl.comm_put"

\* Op::Get("tl." #OpName)
AccKey(X) == "tl." \o X

\* variant: the display name keeps the "tl." prefix
PrinterName_Prefixed(X) == "tl." \o X

\* .set_attr<TScriptPrinterName>("TScriptPrinterName", #OpName)
PrinterName(X) == X

\* variant: CoreId declared with comm_fence's arity
NumInputs_CopyPaste(X) ==
    CASE X \in {"comm_put", "comm_broadcast", "comm_allgather", "comm_reduce",
                "comm_barrier"} -> -1
      [] OTHER -> 0

\* .set_num_inputs(n)
NumInputs(X) ==
    CASE X = "comm_put"          -> -1
      [] X = "comm_broadcast"    -> -1
      [] X = "comm_allgather"    -> -1
      [] X = "comm_reduce"       -> -1
      [] X = "comm_barrier"      -> -1
      [] X = "comm_fence"        -> 0
      [] X = "CoreId"            -> 1
      [] X = "comm_current_core" -> 0

\* .set_attr<TCallEffectKind>("TCallEffectKind", Integer(CallEffectKind::kOpaque))
EffectKind(X) == "opaque"

KindPrinterName == "TScriptPrinterName"
KindEffect == "TCallEffectKind"
KindOther == "TOther"

----------------------------------------------------------------------------
(* The registry contract                                                   *)

NotFound == <<>>
Absent == <<>>
Some(v) == <<v>>

Ids == 1..Len(entries)

\* the identities table tbl holds for name, and the first of them
IdsIn(tbl, name) == {i \in 1..Len(tbl) : tbl[i] = name}

IdIn(tbl, name) == CHOOSE i \in IdsIn(tbl, name) : \A j \in IdsIn(tbl, name) : i <= j

IdsOf(name) == IdsIn(entries, name)

Has(name) == IdsOf(name) # {}

IdOf(name) == IdIn(entries, name)

\* lookup(name) -> Identity option
Lookup(name) == IF Has(name) THEN Some(IdOf(name)) ELSE NotFound

\* register_or_get(name): the table after the call
RegisterOrGet(name) == IF Has(name) THEN entries ELSE Append(entries, name)

\* register_or_get(name): the identity returned
RegisterOrGetId(name) == IF Has(name) THEN IdOf(name) ELSE Len(entries) + 1

\* get_attribute(identity, kind) -> value option
GetAttrIn(a, id, kind) ==
    IF <<id, kind>> \in DOMAIN a THEN Some(a[<<id, kind>>]) ELSE Absent

GetAttr(id, kind) == GetAttrIn(attrs, id, kind)

\* the arity attribute, read the same way
GetNumInputsIn(a, id) == IF id \in DOMAIN a THEN Some(a[id]) ELSE Absent

GetNumInputs(id) == GetNumInputsIn(num_inputs, id)

\* variant: a later binding silently replaces an earlier one
SetAttr_Overwrite(id, kind, v) ==
    [err |-> "ok", attrs |-> [b \in DOMAIN attrs \cup {<<id, kind>>} |->
                                IF b = <<id, kind>> THEN v ELSE attrs[b]]]

\* set_attribute(identity, kind, value): error flag and bindings after the call
SetAttr(id, kind, v) ==
    IF <<id, kind>> \in DOMAIN attrs
    THEN IF attrs[<<id, kind>>] = v
         THEN [err |-> "ok", attrs |-> attrs]
         ELSE [err |-> "conflict", attrs |-> attrs]
    ELSE [err |-> "ok", attrs |-> (<<id, kind>> :> v) @@ attrs]

\* variant: a later arity silently replaces an earlier one
SetNumInputs_Overwrite(id, n) ==
    [err |-> "ok", num_inputs |-> [i \in DOMAIN num_inputs \cup {id} |->
                                     IF i = id THEN n ELSE num_inputs[i]]]

\* set_attribute for the arity attribute
SetNumInputs(id, n) ==
    IF id \in DOMAIN num_inputs
    THEN IF num_inputs[id] = n
         THEN [err |-> "ok", num_inputs |-> num_inputs]
         ELSE [err |-> "conflict", num_inputs |-> num_inputs]
    ELSE [err |-> "ok", num_inputs |-> (id :> n) @@ num_inputs]

----------------------------------------------------------------------------
(* Initial state: nothing registered, no static initialised                *)

Idle == [op |-> "none", key |-> "", kind |-> "", err |-> "ok", res |-> <<>>]

Init ==
    /\ entries = <<>>
    /\ attrs = <<>>
    /\ num_inputs = <<>>
    /\ regOp = 1
    /\ regStep = 1
    /\ regEntry = 0
    /\ cache = [X \in OpNames |-> <<>>]
    /\ guard = [X \in OpNames |-> 0]
    /\ pc = [t \in Threads |-> "idle"]
    /\ cur = [t \in Threads |-> ""]
    /\ ret = [t \in Threads |-> <<>>]
    /\ last = Idle
    /\ fatal = FALSE

AccVars == <<cache, guard, pc, cur, ret>>
RegVars == <<regOp, regStep, regEntry>>
TableVars == <<entries, attrs, num_inputs>>

----------------------------------------------------------------------------
(* Static initialisation of comm.cc: one call chain per catalog entry      *)

\* TVM_REGISTER_OP("tl." #OpName)
RegRegister ==
    /\ ~fatal /\ regOp <= NumOps /\ regStep = 1
    /\ LET key == RegKey(Catalog[regOp]) IN
        /\ entries' = RegisterOrGet(key)
        /\ regEntry' = RegisterOrGetId(key)
        /\ last' = [op |-> "register_or_get", key |-> key, kind |-> "",
                    err |-> "ok", res |-> Some(RegisterOrGetId(key))]
    /\ regStep' = 2
    /\ UNCHANGED <<attrs, num_inputs, regOp, fatal>>
    /\ UNCHANGED AccVars

\* .set_attr<TScriptPrinterName>("TScriptPrinterName", #OpName)
RegPrinterName ==
    /\ ~fatal /\ regOp <= NumOps /\ regStep = 2
    /\ LET X == Catalog[regOp]
           out == SetAttr(regEntry, KindPrinterName, PrinterName(X)) IN
        /\ attrs' = out.attrs
        /\ fatal' = (out.err = "conflict")
        /\ regStep' = IF out.err = "ok" THEN 3 ELSE regStep
        /\ last' = [op |-> "set_attribute", key |-> entries[regEntry],
                    kind |-> KindPrinterName, err |-> out.err,
                    res |-> Some(PrinterName(X))]
    /\ UNCHANGED <<entries, num_inputs, regOp, regEntry>>
    /\ UNCHANGED AccVars

\* .set_num_inputs(n)
RegNumInputs ==
    /\ ~fatal /\ regOp <= NumOps /\ regStep = 3
    /\ LET X == Catalog[regOp]
           out == SetNumInputs(regEntry, NumInputs(X)) IN
        /\ num_inputs' = out.num_inputs
        /\ fatal' = (out.err = "conflict")
        /\ regStep' = IF out.err = "ok" THEN 4 ELSE regStep
        /\ last' = [op |-> "set_num_inputs", key |-> entries[regEntry],
                    kind |-> "num_inputs", err |-> out.err,
                    res |-> Some(NumInputs(X))]
    /\ UNCHANGED <<entries, attrs, regOp, regEntry>>
    /\ UNCHANGED AccVars

\* .set_attr<TCallEffectKind>("TCallEffectKind", Integer(CallEffectKind::kOpaque))
RegEffectKind ==
    /\ ~fatal /\ regOp <= NumOps /\ regStep = 4
    /\ LET X == Catalog[regOp]
           out == SetAttr(regEntry, KindEffect, EffectKind(X)) IN
        /\ attrs' = out.attrs
        /\ fatal' = (out.err = "conflict")
        /\ regStep' = IF out.err = "ok" THEN 1 ELSE regStep
        /\ regOp' = IF out.err = "ok" THEN regOp + 1 ELSE regOp
        /\ last' = [op |-> "set_attribute", key |-> entries[regEntry],
                    kind |-> KindEffect, err |-> out.err,
                    res |-> Some(EffectKind(X))]
    /\ UNCHANGED <<entries, num_inputs, regEntry>>
    /\ UNCHANGED AccVars

StaticInit == RegRegister \/ RegPrinterName \/ RegNumInputs \/ RegEffectKind

\* the registration statement of catalog entry i has run to its end
RegDone(i) == regOp > i

IndexOf(X) == CHOOSE i \in 1..NumOps : Catalog[i] = X

Registered(X) == RegDone(IndexOf(X))

AllRegistered == regOp > NumOps

----------------------------------------------------------------------------
(* The accessor  const Op &OpName()  (comm.cc lines 13-16)                 *)

\* static const Op &op = Op::Get("tl." #OpName): the value the static is bound to
AccInitValue(X) == Lookup(AccKey(X))

\* variant: the accessor registers its name on first use
AccInitEntries_Register(X) == RegisterOrGet(AccKey(X))

\* the table after the accessor's initialisation of its static
AccInitEntries(X) == entries

\* the value a call returns once the static's initialisation has been passed
AccResult(X) == IF cache[X] # <<>> THEN cache[X] ELSE AccInitValue(X)

\* A whole call of accessor X on the initialising thread, between two
\* registration statements.  A failed Op::Get leaves the static uninitialised.
AccessorCall(X) ==
    /\ ~fatal /\ regStep = 1
    /\ \A t \in Threads : pc[t] = "idle"
    /\ cache' = [cache EXCEPT ![X] = AccResult(X)]
    /\ entries' = AccInitEntries(X)
    /\ last' = [op |-> "accessor", key |-> AccKey(X), kind |-> "",
                err |-> IF AccResult(X) = NotFound THEN "not_found" ELSE "ok",
                res |-> AccResult(X)]
    /\ UNCHANGED <<attrs, num_inputs, guard, pc, cur, ret, fatal>>
    /\ UNCHANGED RegVars

\* Thread t enters accessor cur[t]: an initialised static is returned at once,
\* otherwise the thread takes the initialisation guard (or waits for it).
AccEnter(t) ==
    /\ ~fatal /\ pc[t] = "idle" /\ cur[t] \in OpNames
    /\ LET X == cur[t] IN
        IF cache[X] # <<>>
        THEN /\ pc' = [pc EXCEPT ![t] = "done"]
             /\ ret' = [ret EXCEPT ![t] = cache[X]]
             /\ UNCHANGED guard
        ELSE /\ guard[X] = 0
             /\ guard' = [guard EXCEPT ![X] = t]
             /\ pc' = [pc EXCEPT ![t] = "init"]
             /\ UNCHANGED ret
    /\ UNCHANGED <<cache, cur, last, fatal>>
    /\ UNCHANGED TableVars
    /\ UNCHANGED RegVars

\* Thread t, holding the guard, runs Op::Get and binds the static; a failed
\* Op::Get releases the guard and leaves the static uninitialised.
AccInit(t) ==
    /\ ~fatal /\ pc[t] = "init"
    /\ LET X == cur[t] IN
        /\ cache' = [cache EXCEPT ![X] = AccInitValue(X)]
        /\ entries' = AccInitEntries(X)
        /\ guard' = [guard EXCEPT ![X] = 0]
        /\ ret' = [ret EXCEPT ![t] = AccInitValue(X)]
    /\ pc' = [pc EXCEPT ![t] = "done"]
    /\ UNCHANGED <<attrs, num_inputs, cur, last, fatal>>
    /\ UNCHANGED RegVars

\* Thread t has used the returned reference and may call again.
AccReturn(t) ==
    /\ ~fatal /\ pc[t] = "done"
    /\ pc' = [pc EXCEPT ![t] = "idle"]
    /\ ret' = [ret EXCEPT ![t] = <<>>]
    /\ UNCHANGED <<cache, guard, cur, last, fatal>>
    /\ UNCHANGED TableVars
    /\ UNCHANGED RegVars

----------------------------------------------------------------------------
(* Other compiler components using the registry contract directly          *)

ClientNames == {"tl.comm_put", "tl.other"}
LookupNames == {"tl.comm_put", "comm_put", "tl.other"}
ReadKinds == {KindEffect, KindOther}
ClientValues == {"opaque", "pure"}
ClientArities == {-1, 2}

ClientRegisterOrGet(n) ==
    /\ ~fatal /\ regStep = 1
    /\ entries' = RegisterOrGet(n)
    /\ last' = [op |-> "register_or_get", key |-> n, kind |-> "",
                err |-> "ok", res |-> Some(RegisterOrGetId(n))]
    /\ UNCHANGED <<attrs, num_inputs, fatal>>
    /\ UNCHANGED RegVars
    /\ UNCHANGED AccVars

ClientSetAttr(n, kind, v) ==
    /\ ~fatal /\ regStep = 1 /\ Has(n)
    /\ LET out == SetAttr(IdOf(n), kind, v) IN
        /\ attrs' = out.attrs
        /\ fatal' = (out.err = "conflict")
        /\ last' = [op |-> "set_attribute", key |-> n, kind |-> kind,
                    err |-> out.err, res |-> Some(v)]
    /\ UNCHANGED <<entries, num_inputs>>
    /\ UNCHANGED RegVars
    /\ UNCHANGED AccVars

ClientSetNumInputs(n, k) ==
    /\ ~fatal /\ regStep = 1 /\ Has(n)
    /\ LET out == SetNumInputs(IdOf(n), k) IN
        /\ num_inputs' = out.num_inputs
        /\ fatal' = (out.err = "conflict")
        /\ last' = [op |-> "set_num_inputs", key |-> n, kind |-> "num_inputs",
                    err |-> out.err, res |-> Some(k)]
    /\ UNCHANGED <<entries, attrs>>
    /\ UNCHANGED RegVars
    /\ UNCHANGED AccVars

ClientLookup(n) ==
    /\ ~fatal /\ regStep = 1
    /\ last' = [op |-> "lookup", key |-> n, kind |-> "",
                err |-> IF Lookup(n) = NotFound THEN "not_found" ELSE "ok",
                res |-> Lookup(n)]
    /\ UNCHANGED fatal
    /\ UNCHANGED TableVars
    /\ UNCHANGED RegVars
    /\ UNCHANGED AccVars

ClientGetAttr(n, kind) ==
    /\ ~fatal /\ regStep = 1 /\ Has(n)
    /\ last' = [op |-> "get_attribute", key |-> n, kind |-> kind,
                err |-> "ok", res |-> GetAttr(IdOf(n), kind)]
    /\ UNCHANGED fatal
    /\ UNCHANGED TableVars
    /\ UNCHANGED RegVars
    /\ UNCHANGED AccVars

----------------------------------------------------------------------------
(* Specifications                                                          *)

Accessors == \E X \in OpNames : AccessorCall(X)

Reads ==
    \/ \E n \in LookupNames : ClientLookup(n)
    \/ \E k \in ReadKinds : ClientGetAttr("tl.comm_put", k)

Writes ==
    \/ \E n \in ClientNames : ClientRegisterOrGet(n)
    \/ \E v \in ClientValues : ClientSetAttr("tl.comm_put", KindEffect, v)
    \/ \E k \in ClientArities : ClientSetNumInputs("tl.comm_put", k)

\* comm.cc alone: static initialisation, accessor calls, and readers
NextCatalog == StaticInit \/ Accessors \/ Reads

SpecCatalog == Init /\ [][NextCatalog]_vars

\* comm.cc together with other components that register and annotate
Next == StaticInit \/ Accessors \/ Reads \/ Writes

Spec == Init /\ [][Next]_vars

\* several threads racing on one accessor while static initialisation runs
InitConc ==
    /\ Init!1 /\ Init!2 /\ Init!3 /\ Init!4 /\ Init!5 /\ Init!6 /\ Init!7
    /\ Init!8 /\ Init!9 /\ Init!11 /\ Init!12 /\ Init!13
    /\ \E X \in OpNames : cur = [t \in Threads |-> X]

ThreadStep == \E t \in Threads : AccEnter(t) \/ AccInit(t) \/ AccReturn(t)

NextConc == StaticInit \/ ThreadStep

SpecConc == InitConc /\ [][NextConc]_vars

----------------------------------------------------------------------------
(* Vocabulary of the properties                                            *)

\* the registry key of catalog operator X, as the design table names it
KeyOf(X) == "tl." \o X

CatalogKeys == {"tl.comm_put", "tl.comm_broadcast", "tl.comm_allgather",
                "tl.comm_reduce", "tl.comm_barrier", "tl.comm_fence",
                "tl.CoreId", "tl.comm_current_core"}

\* arity column of the catalog table (-1 is the "variable" sentinel)
ExpectedArity(X) ==
    IF X \in {"comm_fence", "comm_current_core"} THEN 0
    ELSE IF X = "CoreId" THEN 1 ELSE -1

\* identity id carries the three attributes the catalog table gives X
FullyBound(id, X) ==
    /\ GetAttr(id, KindPrinterName) = Some(X)
    /\ GetAttr(id, KindEffect) = Some("opaque")
    /\ GetNumInputs(id) = Some(ExpectedArity(X))

\* the catalog operator an accessor key belongs to
OpOfKey(k) == CHOOSE X \in OpNames : KeyOf(X) = k

NamesIn(tbl) == {tbl[i] : i \in 1..Len(tbl)}

NamesRegistered == NamesIn(entries)

----------------------------------------------------------------------------
(* Properties                                                              *)

\* C2 (uniqueness): no name is held by two identities, every initialised
\* accessor static refers to the identity registered under its own key, and
\* the identities of two different accessors differ.
C2_Uniqueness ==
    /\ \A i, j \in Ids : i # j => entries[i] # entries[j]
    /\ \A X \in OpNames :
          cache[X] # <<>> => /\ cache[X][1] \in Ids
                             /\ entries[cache[X][1]] = KeyOf(X)
    /\ \A X, Y \in OpNames :
          (X # Y /\ cache[X] # <<>> /\ cache[Y] # <<>>) => cache[X] # cache[Y]

\* C2 witness: all eight accessors have returned and a ninth name is registered
C2_Witness ==
    /\ AllRegistered
    /\ Has("tl.other")
    /\ \A X \in OpNames : cache[X] # <<>>
    /\ Cardinality({cache[X] : X \in OpNames}) = 8

\* C3 (attribute round-trip): once all eight registration statements have run,
\* each operator's identity reports effect "opaque" and its bare name as display
\* name, a kind never bound reads as the explicit absent result, and a
\* get_attribute call made then returns exactly the bound value or absent.
C3_AttributeRoundTrip ==
    AllRegistered =>
        /\ \A X \in OpNames :
              /\ Has(KeyOf(X))
              /\ GetAttr(IdOf(KeyOf(X)), KindEffect) = Some("opaque")
              /\ GetAttr(IdOf(KeyOf(X)), KindPrinterName) = Some(X)
              /\ GetAttr(IdOf(KeyOf(X)), KindOther) = Absent
              /\ Absent # Some("") /\ Absent # Some(0)
        /\ (last.op = "get_attribute" /\ last.key \in CatalogKeys) =>
              last.res = IF last.kind = KindEffect THEN Some("opaque") ELSE Absent

\* C3 witness: after full registration a reader fetched a kind never bound
C3_Witness ==
    /\ AllRegistered
    /\ last.op = "get_attribute"
    /\ last.key = "tl.comm_put"
    /\ last.kind = KindOther
    /\ last.res = Absent

\* C4 (arity fidelity): from the end of its registration statement on, each
\* operator carries the arity of the catalog table, whatever was attempted since.
C4_ArityFidelity ==
    \A X \in OpNames :
        Registered(X) =>
            /\ Has(KeyOf(X))
            /\ GetNumInputs(IdOf(KeyOf(X))) = Some(ExpectedArity(X))

\* C4 witness: after full registration a component tried to give comm_put
\* another arity
C4_Witness ==
    /\ AllRegistered
    /\ last.op = "set_num_inputs"
    /\ last.key = "tl.comm_put"
    /\ last.res = Some(2)
    /\ last.err = "conflict"

\* C10 (key consistency): with only comm.cc registering, the table holds exactly
\* the eight "tl."-prefixed keys after static initialisation, no bare name is
\* ever a key, every accessor finds the identity of its own key, and that
\* identity's display name is the bare name.
C10_KeyConsistency ==
    /\ NamesRegistered \subseteq CatalogKeys
    /\ \A X \in OpNames : ~Has(X)
    /\ \A X \in OpNames : RegKey(X) = AccKey(X)
    /\ AllRegistered =>
          /\ NamesRegistered = CatalogKeys
          /\ Len(entries) = 8
          /\ \A X \in OpNames :
                GetAttr(IdOf(KeyOf(X)), KindPrinterName) = Some(X)
    /\ \A X \in OpNames :
          cache[X] # <<>> => entries[cache[X][1]] = KeyOf(X)
    /\ (last.op = "accessor" /\ last.err = "ok") =>
          entries[last.res[1]] = last.key
    /\ (last.op = "lookup" /\ last.key \in OpNames) => last.err = "not_found"

\* C10 witness: everything registered, every accessor has found its operator,
\* and a lookup of the bare name comm_put came back not found
C10_Witness ==
    /\ AllRegistered
    /\ \A X \in OpNames : cache[X] # <<>>
    /\ last.op = "lookup"
    /\ last.key = "comm_put"
    /\ last.err = "not_found"

\* C1 (idempotence): every register_or_get call and every accessor call for a
\* name returns the one identity of that name, and exactly one identity exists
\* for the name after the call.
C1_Idempotence ==
    last.op \in {"register_or_get", "accessor"} =>
        /\ Cardinality(IdsOf(last.key)) = 1
        /\ last.res = Some(IdOf(last.key))

\* C5 (conflict detection): a set_attribute (or arity) call on a pair already
\* bound to a different value ends in the conflicting-registration error, is
\* fatal, changes no binding and creates no identity, so get_attribute still
\* returns the value bound before; when comm_put carries "opaque" this is what
\* an attempt to give it another effect classification meets.
C5_ConflictDetection ==
    [][ /\ last'.op = "set_attribute" =>
              LET id == IdOf(last'.key)
                  bound == GetAttr(id, last'.kind) IN
              (bound # Absent /\ bound # last'.res) =>
                  /\ last'.err = "conflict"
                  /\ fatal'
                  /\ entries' = entries
                  /\ attrs' = attrs
                  /\ GetAttrIn(attrs', id, last'.kind) = bound
        /\ last'.op = "set_num_inputs" =>
              LET id == IdOf(last'.key)
                  bound == GetNumInputs(id) IN
              (bound # Absent /\ bound # last'.res) =>
                  /\ last'.err = "conflict"
                  /\ fatal'
                  /\ entries' = entries
                  /\ num_inputs' = num_inputs
                  /\ GetNumInputsIn(num_inputs', id) = bound ]_vars

\* C5 witness: comm_put is registered as opaque and a component tried to bind
\* the effect classification "pure" to it
C5_Witness ==
    /\ Registered("comm_put")
    /\ last.op = "set_attribute"
    /\ last.key = "tl.comm_put"
    /\ last.kind = KindEffect
    /\ last.res = Some("pure")
    /\ last.err = "conflict"
    /\ GetAttr(IdOf("tl.comm_put"), KindEffect) = Some("opaque")

\* C7 (lazy registration by the accessor): every accessor call, also one made
\* while its name is still absent, succeeds and leaves its operator registered
\* with effect classification, display name and arity attached.
C7_LazyRegistration ==
    last.op = "accessor" =>
        /\ last.err = "ok"
        /\ Has(last.key)
        /\ FullyBound(IdOf(last.key), OpOfKey(last.key))

\* C8 (one-shot, monotonic registration): no step removes a name, changes the
\* identity of a name, or changes or removes a bound attribute or arity.
C8_Monotonic ==
    [][ /\ \A i \in Ids : i <= Len(entries') /\ entries'[i] = entries[i]
        /\ \A i \in 1..Len(entries') : i \notin Ids => entries'[i] \notin NamesRegistered
        /\ \A b \in DOMAIN attrs : b \in DOMAIN attrs' /\ attrs'[b] = attrs[b]
        /\ \A i \in DOMAIN num_inputs :
              i \in DOMAIN num_inputs' /\ num_inputs'[i] = num_inputs[i] ]_vars

\* C8 witness: with everything registered, a component re-bound comm_put's
\* effect classification to the value it already had
C8_Witness ==
    /\ AllRegistered
    /\ Has("tl.other")
    /\ last.op = "set_attribute"
    /\ last.key = "tl.comm_put"
    /\ last.res = Some("opaque")
    /\ last.err = "ok"

\* C9 (lookup is a pure read): a lookup, and the Op::Get an accessor performs,
\* change no table, binding or arity; lookup of an unregistered name returns
\* not-found without aborting, lookup of a registered name returns its identity.
C9_LookupPure ==
    [][ /\ last'.op \in {"lookup", "accessor"} =>
              /\ entries' = entries
              /\ attrs' = attrs
              /\ num_inputs' = num_inputs
        /\ last'.op = "lookup" =>
              /\ fatal' = fatal
              /\ ~fatal'
              /\ IF Has(last'.key)
                 THEN last'.err = "ok" /\ last'.res = Some(IdOf(last'.key))
                 ELSE last'.err = "not_found" /\ last'.res = NotFound ]_vars

\* C9 witness: a lookup of a name nobody registered came back not found while
\* other names were registered
C9_Witness ==
    /\ last.op = "lookup"
    /\ last.key = "tl.other"
    /\ last.err = "not_found"
    /\ ~Has("tl.other")
    /\ Registered("comm_put")

\* C6 (concurrency safety): every thread's accessor call returns the one
\* identity of the name, with display name, effect classification and arity
\* bound.
C6_ConcurrencySafety ==
    \A t \in Threads :
        pc[t] = "done" =>
            /\ ret[t] # NotFound
            /\ Cardinality(IdsOf(KeyOf(cur[t]))) = 1
            /\ ret[t] = Some(IdOf(KeyOf(cur[t])))
            /\ FullyBound(ret[t][1], cur[t])

====
